---- MODULE Spec2Model ----
(***************************************************************************)
(* SceneManager (Source/SceneManager.cpp): the texture registry, the       *)
(* material list, the OpenGL texture state they drive, the shader uniforms *)
(* and the scene preparation / rendering routines.                         *)
(*                                                                         *)
(* m_pShaderManager is the shader manager the object was constructed with  *)
(* (never NULL), so every Set... helper reaches the shader.                 *)
(*                                                                         *)
(* Numbers that are floats in the source are kept as integers in           *)
(* ten-thousandths (0.25f is 2500), material values in tenths.             *)
(***************************************************************************)
EXTENDS Integers, Sequences, FiniteSets, TLC

\* ------------------------------------------------------------------ bounds
\* CreateGLTexture / glGenTextures calls explored by the registry-level
\* specification (Spec)
MaxGen == 3
\* DefineObjectMaterials calls explored by SpecMaterials
MaxDefines == 2
\* image loads that may fail in one run of SpecScene
MaxFailed == 1
\* PrepareScene calls explored by SpecScene
MaxPrepares == 2
\* image loads that fail in one run when only scene preparation is explored
MaxLoadFailed == 2
MaxShift == 1

\* ------------------------------------------------------- program constants
\* capacity of m_textureIDs and number of texture units used ("There are up
\* to 16 slots")
MaxTextures == 16

NoTag == ""
NoTexture == 0

\* tags handed to CreateGLTexture by the registry-level specification
RegTags == {"cup", "plastic"}
\* tags looked up: the registered ones and one that is never registered
LookupTags == RegTags \cup {"glass"}

\* what stbi_load can deliver: no image (NULL), or an image with 1..4 channels
NullImage == [ok |-> FALSE, colorChannels |-> 0]
Images == {NullImage} \cup {[ok |-> TRUE, colorChannels |-> c] : c \in 1..4}

VARIABLES
    m_textureIDs,       \* TEXTURE_INFO m_textureIDs[16]: index -> [ID, tag]
    m_loadedTextures,   \* int m_loadedTextures
    m_objectMaterials,  \* std::vector<OBJECT_MATERIAL>
    meshes,             \* the Load...Mesh calls made on m_basicMeshes
    gl,                 \* OpenGL / stb_image state touched by the texture code
    shader,             \* uniforms written through m_pShaderManager
    ub,                 \* an out-of-bounds write to m_textureIDs has happened
    last,               \* the last operation: name, arguments, result
    frame               \* what the last RenderScene issued

vars == <<m_textureIDs, m_loadedTextures, m_objectMaterials, meshes, gl,
          shader, ub, last, frame>>

Slots == 0..(MaxTextures - 1)

\* ----------------------------------------------------------- initial state
\* SceneManager::SceneManager: only m_pShaderManager and m_basicMeshes are
\* assigned; the registry entries are default-constructed
EmptyEntry == [ID |-> NoTexture, tag |-> NoTag]

\* the value m_loadedTextures has after construction (member declaration in
\* SceneManager.h)
InitialLoadedTextures == 0

GLInit ==
    [gen     |-> 0,                          \* texture names generated so far
     deleted |-> {},                         \* names given to glDeleteTextures
     active  |-> 0,                          \* glActiveTexture unit
     bound   |-> [u \in Slots |-> NoTexture],\* GL_TEXTURE_2D binding per unit
     images  |-> 0,                          \* decoded images not yet freed
     touched |-> {}]                         \* units the last BindGLTextures selected

Unset == "unset"

ShaderInit ==
    [bUseTexture   |-> Unset,
     objectTexture |-> Unset,
     objectColor   |-> Unset,
     UVscale       |-> Unset,
     model         |-> Unset,
     material      |-> Unset,
     bUseLighting  |-> Unset,
     pointLights   |-> <<>>,
     lightWrites   |-> <<>>]

NoLast == [op |-> "new", tag |-> NoTag, ret |-> "none", reads |-> {},
           image |-> NullImage, material |-> Unset, out |-> Unset,
           calls |-> <<>>]

NoFrame ==
    [draws     |-> <<>>,   \* the draw calls, each with the shader state it used
     samplers  |-> <<>>,   \* the SetShaderTexture calls and the slot each passed
     materials |-> <<>>,   \* the SetShaderMaterial calls and what each left
     since     |-> {}]     \* the helpers called since the last draw call

Init ==
    /\ m_textureIDs = [i \in Slots |-> EmptyEntry]
    /\ m_loadedTextures = InitialLoadedTextures
    /\ m_objectMaterials = <<>>
    /\ meshes = <<>>
    /\ gl = GLInit
    /\ shader = ShaderInit
    /\ ub = FALSE
    /\ last = NoLast
    /\ frame = NoFrame

\* The object as one record, so that the methods compose as in the source.
Self ==
    [m_textureIDs      |-> m_textureIDs,
     m_loadedTextures  |-> m_loadedTextures,
     m_objectMaterials |-> m_objectMaterials,
     meshes            |-> meshes,
     gl                |-> gl,
     shader            |-> shader,
     ub                |-> ub,
     ret               |-> "none",
     trace             |-> <<>>]   \* the calls a composite method has made

\* a call of a method by another, noted in the order made
Called(s, call, arg) ==
    [s EXCEPT !.trace = Append(@, [call |-> call, arg |-> arg])]

Commit(s) ==
    /\ m_textureIDs' = s.m_textureIDs
    /\ m_loadedTextures' = s.m_loadedTextures
    /\ m_objectMaterials' = s.m_objectMaterials
    /\ meshes' = s.meshes
    /\ gl' = s.gl
    /\ shader' = s.shader
    /\ ub' = s.ub

\* ------------------------------------------------------------ OpenGL calls
glGenTextures(g) == [g EXCEPT !.gen = g.gen + 1]

glBindTexture(g, id) == [g EXCEPT !.bound[g.active] = id]

glActiveTexture(g, unit) ==
    [g EXCEPT !.active = unit, !.touched = g.touched \cup {unit}]

stbi_load(g, image) ==
    IF image.ok THEN [g EXCEPT !.images = g.images + 1] ELSE g

stbi_image_free(g) == [g EXCEPT !.images = g.images - 1]

\* GLuint -> int, as in "textureID = m_textureIDs[index].ID"
ToInt(u) == IF u > 2147483647 THEN u - 2147483647 - 2147483647 - 2 ELSE u

\* --------------------------------------------------------- CreateGLTexture
\* the registration at the end of CreateGLTexture; past the end of the array
\* the write is out of bounds
RegisterTexture(s, textureID, tag) ==
    IF s.m_loadedTextures \in Slots
    THEN [s EXCEPT !.m_textureIDs[s.m_loadedTextures] =
                       [ID |-> textureID, tag |-> tag],
                   !.m_loadedTextures = s.m_loadedTextures + 1]
    ELSE [s EXCEPT !.ub = TRUE,
                   !.m_loadedTextures = s.m_loadedTextures + 1]

\* CreateGLTexture without the channel-count check: any decoded image is
\* uploaded and registered
CreateGLTextureAnyChannels(s, image, tag) ==
    LET loaded == [s EXCEPT !.gl = stbi_load(s.gl, image)] IN
    IF image.ok
    THEN LET textureID == loaded.gl.gen + 1
             made == [loaded EXCEPT
                        !.gl = glBindTexture(glGenTextures(loaded.gl), textureID)]
             freed == [made EXCEPT
                         !.gl = glBindTexture(stbi_image_free(made.gl), NoTexture)]
         IN  [RegisterTexture(freed, textureID, tag) EXCEPT !.ret = TRUE]
    ELSE [loaded EXCEPT !.ret = FALSE]

CreateGLTexture(s, image, tag) ==
    LET loaded == [s EXCEPT !.gl = stbi_load(s.gl, image)] IN
    IF image.ok
    THEN LET textureID == loaded.gl.gen + 1
             made == [loaded EXCEPT
                        !.gl = glBindTexture(glGenTextures(loaded.gl), textureID)]
         IN  IF image.colorChannels = 3 \/ image.colorChannels = 4
             THEN LET freed == [made EXCEPT
                         !.gl = glBindTexture(stbi_image_free(made.gl), NoTexture)]
                  IN  [RegisterTexture(freed, textureID, tag) EXCEPT !.ret = TRUE]
             ELSE [made EXCEPT !.ret = FALSE]
    ELSE [loaded EXCEPT !.ret = FALSE]

\* ---------------------------------------------------------- BindGLTextures
RECURSIVE BindLoop(_, _)
BindLoop(s, i) ==
    IF i < s.m_loadedTextures
    THEN BindLoop([s EXCEPT !.gl = glBindTexture(glActiveTexture(s.gl, i),
                                                 s.m_textureIDs[i].ID)],
                  i + 1)
    ELSE s

\* BindGLTextures without the glActiveTexture call: every texture is bound
\* on the unit that happens to be active
RECURSIVE BindLoopOneUnit(_, _)
BindLoopOneUnit(s, i) ==
    IF i < s.m_loadedTextures
    THEN BindLoopOneUnit([s EXCEPT !.gl = glBindTexture(s.gl, s.m_textureIDs[i].ID)],
                         i + 1)
    ELSE s

BindGLTexturesOneUnit(s) == BindLoopOneUnit([s EXCEPT !.gl.touched = {}], 0)

BindGLTextures(s) == BindLoop([s EXCEPT !.gl.touched = {}], 0)

\* ------------------------------------------------------- DestroyGLTextures
RECURSIVE DestroyLoop(_, _)
DestroyLoop(s, i) ==
    IF i < s.m_loadedTextures
    THEN DestroyLoop([s EXCEPT !.gl = glGenTextures(s.gl),
                               !.m_textureIDs[i].ID = s.gl.gen + 1],
                     i + 1)
    ELSE s

DestroyGLTextures(s) == DestroyLoop(s, 0)

\* ------------------------------------------------ FindTextureID / ...Slot
\* each scan returns the result and the registry indices it read
RECURSIVE FindTextureIDLoop(_, _, _, _)
FindTextureIDLoop(s, tag, index, reads) ==
    IF index < s.m_loadedTextures
    THEN IF s.m_textureIDs[index].tag = tag
         THEN [ret |-> ToInt(s.m_textureIDs[index].ID),
               reads |-> reads \cup {index}]
         ELSE FindTextureIDLoop(s, tag, index + 1, reads \cup {index})
    ELSE [ret |-> -1, reads |-> reads]

\* FindTextureID with textureID initialised to 0 instead of -1
FindTextureIDZeroWhenMissing(s, tag) ==
    LET r == FindTextureIDLoop(s, tag, 0, {}) IN
    IF r.ret = -1 THEN [r EXCEPT !.ret = 0] ELSE r

FindTextureID(s, tag) == FindTextureIDLoop(s, tag, 0, {})

RECURSIVE FindTextureSlotLoop(_, _, _, _)
FindTextureSlotLoop(s, tag, index, reads) ==
    IF index < s.m_loadedTextures
    THEN IF s.m_textureIDs[index].tag = tag
         THEN [ret |-> index, reads |-> reads \cup {index}]
         ELSE FindTextureSlotLoop(s, tag, index + 1, reads \cup {index})
    ELSE [ret |-> -1, reads |-> reads]

\* FindTextureSlot without the bFound exit: the scan runs to the end and the
\* last match wins
RECURSIVE FindTextureSlotLastLoop(_, _, _, _, _)
FindTextureSlotLastLoop(s, tag, index, reads, textureSlot) ==
    IF index < s.m_loadedTextures
    THEN FindTextureSlotLastLoop(s, tag, index + 1, reads \cup {index},
             IF s.m_textureIDs[index].tag = tag THEN index ELSE textureSlot)
    ELSE [ret |-> textureSlot, reads |-> reads]

FindTextureSlotLastMatch(s, tag) == FindTextureSlotLastLoop(s, tag, 0, {}, -1)

FindTextureSlot(s, tag) == FindTextureSlotLoop(s, tag, 0, {})

\* -------------------------------------------------------- SetShaderTexture
\* SetShaderTexture turning texturing off when the tag is not registered
SetShaderTextureFallingBack(s, textureTag) ==
    IF FindTextureSlot(s, textureTag).ret = -1
    THEN [s EXCEPT !.shader.bUseTexture = FALSE]
    ELSE [s EXCEPT !.shader.bUseTexture = TRUE,
                   !.shader.objectTexture = FindTextureSlot(s, textureTag).ret]

SetShaderTexture(s, textureTag) ==
    [s EXCEPT !.shader.bUseTexture = TRUE,
              !.shader.objectTexture = FindTextureSlot(s, textureTag).ret]

\* ------------------------------------------------- registry-level actions
Did(op, tag, ret) == [NoLast EXCEPT !.op = op, !.tag = tag, !.ret = ret]

DoCreateGLTexture ==
    /\ ~ub
    /\ gl.gen < MaxGen
    /\ \E image \in Images, tag \in RegTags :
          LET s == CreateGLTexture(Self, image, tag) IN
          /\ Commit(s)
          /\ last' = [Did("CreateGLTexture", tag, s.ret) EXCEPT !.image = image]
    /\ UNCHANGED frame

DoBindGLTextures ==
    /\ ~ub
    /\ Commit(BindGLTextures(Self))
    /\ last' = Did("BindGLTextures", NoTag, "none")
    /\ UNCHANGED frame

DoDestroyGLTextures ==
    /\ ~ub
    /\ gl.gen < MaxGen
    /\ Commit(DestroyGLTextures(Self))
    /\ last' = Did("DestroyGLTextures", NoTag, "none")
    /\ UNCHANGED frame

DoFindTextureID ==
    /\ ~ub
    /\ \E tag \in LookupTags :
          LET r == FindTextureID(Self, tag) IN
          last' = [Did("FindTextureID", tag, r.ret) EXCEPT !.reads = r.reads]
    /\ UNCHANGED <<m_textureIDs, m_loadedTextures, m_objectMaterials, meshes,
                   gl, shader, ub, frame>>

DoFindTextureSlot ==
    /\ ~ub
    /\ \E tag \in LookupTags :
          LET r == FindTextureSlot(Self, tag) IN
          last' = [Did("FindTextureSlot", tag, r.ret) EXCEPT !.reads = r.reads]
    /\ UNCHANGED <<m_textureIDs, m_loadedTextures, m_objectMaterials, meshes,
                   gl, shader, ub, frame>>

DoSetShaderTexture ==
    /\ ~ub
    /\ \E tag \in LookupTags :
          /\ Commit(SetShaderTexture(Self, tag))
          /\ last' = Did("SetShaderTexture", tag, "none")
    /\ UNCHANGED frame

\* --------------------------------------------------- DefineObjectMaterials
Vec3(r, g, b) == <<r, g, b>>

Material(tag, diffuseColor, specularColor, shininess) ==
    [tag |-> tag, diffuseColor |-> diffuseColor,
     specularColor |-> specularColor, shininess |-> shininess]

plasticMaterial == Material("plastic", Vec3(9, 9, 9), Vec3(1, 1, 1), 10)
woodMaterial == Material("wood", Vec3(10, 10, 10), Vec3(1, 1, 1), 50)
woodFloorMaterial == Material("woodFloor", Vec3(10, 10, 10), Vec3(1, 1, 1), 2)
porcelainMaterial == Material("porcelain", Vec3(2, 2, 2), Vec3(8, 8, 9), 320)
metalMaterial == Material("metal", Vec3(3, 3, 2), Vec3(7, 7, 8), 80)
clothMaterial == Material("cloth", Vec3(100, 100, 100), Vec3(3, 3, 3), 20)
wallMaterial == Material("wall", Vec3(4, 4, 4), Vec3(3, 3, 3), 10)
bookCoverMaterial == Material("BookCover", Vec3(5, 1, 1), Vec3(6, 6, 6), 160)

\* DefineObjectMaterials with the book material tagged "bookCover"
DefineObjectMaterialsBookCoverLowercase(s) ==
    [s EXCEPT !.m_objectMaterials =
        s.m_objectMaterials \o
        <<plasticMaterial, woodMaterial, woodFloorMaterial, porcelainMaterial,
          metalMaterial, clothMaterial, wallMaterial,
          [bookCoverMaterial EXCEPT !.tag = "bookCover"]>>]

DefineObjectMaterials(s) ==
    [s EXCEPT !.m_objectMaterials =
        s.m_objectMaterials \o
        <<plasticMaterial, woodMaterial, woodFloorMaterial, porcelainMaterial,
          metalMaterial, clothMaterial, wallMaterial, bookCoverMaterial>>]

\* ------------------------------------------------------------ FindMaterial
\* returns the bool result and the caller's material object after the call
RECURSIVE FindMaterialLoop(_, _, _, _)
FindMaterialLoop(s, tag, material, index) ==
    IF index <= Len(s.m_objectMaterials)
    THEN IF s.m_objectMaterials[index].tag = tag
         THEN [material EXCEPT
                 !.diffuseColor = s.m_objectMaterials[index].diffuseColor,
                 !.specularColor = s.m_objectMaterials[index].specularColor,
                 !.shininess = s.m_objectMaterials[index].shininess]
         ELSE FindMaterialLoop(s, tag, material, index + 1)
    ELSE material

\* FindMaterial with the scan starting at the second material
FindMaterialFromSecond(s, tag, material) ==
    IF Len(s.m_objectMaterials) = 0
    THEN [ret |-> FALSE, material |-> material]
    ELSE [ret |-> TRUE, material |-> FindMaterialLoop(s, tag, material, 2)]

FindMaterial(s, tag, material) ==
    IF Len(s.m_objectMaterials) = 0
    THEN [ret |-> FALSE, material |-> material]
    ELSE [ret |-> TRUE, material |-> FindMaterialLoop(s, tag, material, 1)]

\* ------------------------------------------------------- SetShaderMaterial
\* "OBJECT_MATERIAL material;" is not initialised: its fields hold whatever
\* the stack held
IndeterminateMaterials ==
    {Material(NoTag, Vec3(0, 0, 0), Vec3(0, 0, 0), 0),
     Material(NoTag, Vec3(-77, 13, 999), Vec3(5, -1, 0), -431602)}

SetShaderMaterial(s, materialTag, material) ==
    IF Len(s.m_objectMaterials) > 0
    THEN LET found == FindMaterial(s, materialTag, material) IN
         IF found.ret = TRUE
         THEN [s EXCEPT !.shader.material =
                   [diffuseColor  |-> found.material.diffuseColor,
                    specularColor |-> found.material.specularColor,
                    shininess     |-> found.material.shininess]]
         ELSE s
    ELSE s

\* ------------------------------------------------- material-level actions
\* tags looked up: the eight defined ones and one that is never defined
MaterialLookupTags ==
    {"plastic", "wood", "woodFloor", "porcelain", "metal", "cloth", "wall",
     "BookCover", "glass"}

\* what the caller's material object may hold when FindMaterial is called
CallerMaterials ==
    IndeterminateMaterials \cup {Material("mine", Vec3(1, 2, 3), Vec3(4, 5, 6), 7)}

DoDefineObjectMaterials ==
    /\ ~ub
    /\ Len(m_objectMaterials) < 8 * MaxDefines
    /\ Commit(DefineObjectMaterials(Self))
    /\ last' = Did("DefineObjectMaterials", NoTag, "none")
    /\ UNCHANGED frame

DoFindMaterial ==
    /\ ~ub
    /\ \E tag \in MaterialLookupTags, material \in CallerMaterials :
          LET r == FindMaterial(Self, tag, material) IN
          last' = [Did("FindMaterial", tag, r.ret) EXCEPT
                      !.material = material, !.out = r.material]
    /\ UNCHANGED <<m_textureIDs, m_loadedTextures, m_objectMaterials, meshes,
                   gl, shader, ub, frame>>

DoSetShaderMaterial ==
    /\ ~ub
    /\ \E tag \in MaterialLookupTags, material \in IndeterminateMaterials :
          /\ Commit(SetShaderMaterial(Self, tag, material))
          /\ last' = [Did("SetShaderMaterial", tag, "none") EXCEPT
                         !.material = material, !.out = shader.material]
    /\ UNCHANGED frame

NextMaterials ==
    \/ DoDefineObjectMaterials
    \/ DoFindMaterial
    \/ DoSetShaderMaterial

SpecMaterials == Init /\ [][NextMaterials]_vars

Next ==
    \/ DoCreateGLTexture
    \/ DoBindGLTextures
    \/ DoDestroyGLTextures
    \/ DoFindTextureID
    \/ DoFindTextureSlot
    \/ DoSetShaderTexture

Spec == Init /\ [][Next]_vars


\* ======================================================= scene preparation
\* ------------------------------------------------------- LoadSceneTextures
\* LoadSceneTextures with the last tag spelled "pages"
SceneTexturesPagesMisspelled ==
    <<[filename |-> "./textures/Porcelain.jpg",    tag |-> "cup"],
      [filename |-> "./textures/Wood1.jpg",        tag |-> "table-top"],
      [filename |-> "./textures/Wood2.png",        tag |-> "table-side"],
      [filename |-> "./textures/Metal.jpg",        tag |-> "base"],
      [filename |-> "./textures/Wood3.jpg",        tag |-> "WoodFloor"],
      [filename |-> "./textures/BlackSteel.png",   tag |-> "lamp-rim"],
      [filename |-> "./textures/WhiteCloth.jpg",   tag |-> "lamp-shade"],
      [filename |-> "./textures/Wall.jpg",         tag |-> "wall"],
      [filename |-> "./textures/WhitePlastic.jpg", tag |-> "plastic"],
      [filename |-> "./textures/BookSpine.png",    tag |-> "BookSpine"],
      [filename |-> "./textures/BookBack.png",     tag |-> "BookBack"],
      [filename |-> "./textures/BookFront.png",    tag |-> "BookFront"],
      [filename |-> "./textures/Pages.png",        tag |-> "pages"]>>

\* the CreateGLTexture calls of LoadSceneTextures, in order
\* the list with "Pages.png" registered under the tag "wall" a second time
SceneTexturesWallTwice ==
    [SceneTexturesPagesMisspelled EXCEPT ![13].tag = "wall"]

SceneTextures ==
    <<[filename |-> "./textures/Porcelain.jpg",    tag |-> "cup"],
      [filename |-> "./textures/Wood1.jpg",        tag |-> "table-top"],
      [filename |-> "./textures/Wood2.png",        tag |-> "table-side"],
      [filename |-> "./textures/Metal.jpg",        tag |-> "base"],
      [filename |-> "./textures/Wood3.jpg",        tag |-> "WoodFloor"],
      [filename |-> "./textures/BlackSteel.png",   tag |-> "lamp-rim"],
      [filename |-> "./textures/WhiteCloth.jpg",   tag |-> "lamp-shade"],
      [filename |-> "./textures/Wall.jpg",         tag |-> "wall"],
      [filename |-> "./textures/WhitePlastic.jpg", tag |-> "plastic"],
      [filename |-> "./textures/BookSpine.png",    tag |-> "BookSpine"],
      [filename |-> "./textures/BookBack.png",     tag |-> "BookBack"],
      [filename |-> "./textures/BookFront.png",    tag |-> "BookFront"],
      [filename |-> "./textures/Pages.png",        tag |-> "Pages"]>>

\* images[k] is what stbi_load delivers for the k-th file; bReturn is
\* overwritten by every call and never read
\* the loads of LoadSceneTextures given up at the first failed one
RECURSIVE LoadTexturesUntilFailure(_, _, _)
LoadTexturesUntilFailure(s, images, k) ==
    IF k <= Len(SceneTextures)
    THEN LET made == CreateGLTexture(
                        Called(s, "CreateGLTexture", SceneTextures[k].tag),
                        images[k], SceneTextures[k].tag)
         IN  IF made.ret = TRUE
             THEN LoadTexturesUntilFailure(made, images, k + 1)
             ELSE made
    ELSE s

RECURSIVE LoadTexturesFrom(_, _, _)
LoadTexturesFrom(s, images, k) ==
    IF k <= Len(SceneTextures)
    THEN LoadTexturesFrom(
            CreateGLTexture(Called(s, "CreateGLTexture", SceneTextures[k].tag),
                            images[k], SceneTextures[k].tag),
            images, k + 1)
    ELSE s

\* LoadSceneTextures calling BindGLTextures before the CreateGLTexture calls
LoadSceneTexturesBindingFirst(s, images) ==
    LoadTexturesFrom(BindGLTextures(Called(s, "BindGLTextures", "")), images, 1)

\* once m_textureIDs has been written out of bounds nothing further is
\* modelled
LoadSceneTextures(s, images) ==
    LET loaded == LoadTexturesFrom(s, images, 1) IN
    IF loaded.ub
    THEN loaded
    ELSE BindGLTextures(Called(loaded, "BindGLTextures", ""))

\* -------------------------------------------------------- SetupSceneLights
PointLight(position, ambient, diffuse, specular) ==
    [position |-> position, ambient |-> ambient, diffuse |-> diffuse,
     specular |-> specular, bActive |-> TRUE]

LightFields == <<"position", "ambient", "diffuse", "specular", "bActive">>

\* SetupSceneLights with the bUseLighting write moved to the end
LightWritesFlagLast ==
    [k \in 1..15 |-> [slot |-> (k - 1) \div 5,
                      field |-> LightFields[((k - 1) % 5) + 1]]] \o
    <<[slot |-> -1, field |-> "bUseLighting"]>>

\* the uniform writes of SetupSceneLights in the order of the source, each
\* named by light slot and field (slot -1: the bUseLighting flag)
LightWrites ==
    <<[slot |-> -1, field |-> "bUseLighting"]>> \o
    [k \in 1..15 |-> [slot |-> (k - 1) \div 5,
                      field |-> LightFields[((k - 1) % 5) + 1]]]

SetupSceneLights(s) ==
    [s EXCEPT
       !.shader.bUseLighting = TRUE,
       !.shader.pointLights =
           <<PointLight(Vec3(0, 200000, 200000), Vec3(1000, 1000, 1000),
                        Vec3(4000, 4000, 4000), Vec3(100, 100, 100)),
             PointLight(Vec3(-40000, 55000, -25000), Vec3(4000, 4000, 4000),
                        Vec3(5000, 5000, 5000), Vec3(100, 100, 100)),
             PointLight(Vec3(-60000, 55000, -15000), Vec3(4000, 4000, 4000),
                        Vec3(5000, 5000, 5000), Vec3(100, 100, 100))>>,
       !.shader.lightWrites = s.shader.lightWrites \o LightWrites]

\* ------------------------------------------------------------ PrepareScene
\* PrepareScene without its LoadTorusMesh call
PreparedMeshesNoTorus ==
    <<"Plane", "TaperedCylinder", "Box", "Cylinder", "Sphere">>

\* the Load...Mesh calls of PrepareScene, in order
PreparedMeshes ==
    <<"Plane", "TaperedCylinder", "Torus", "Box", "Cylinder", "Sphere">>

LoadMeshes(s) ==
    [s EXCEPT !.meshes = s.meshes \o PreparedMeshes,
              !.trace = s.trace \o
                 [k \in 1..Len(PreparedMeshes) |->
                     [call |-> "LoadMesh", arg |-> PreparedMeshes[k]]]]

\* the mesh a Draw...Mesh call of ShapeMeshes renders: a box side is drawn
\* from the box mesh and a half torus from the torus mesh
DrawnMesh(mesh) ==
    CASE mesh = "BoxSide" -> "Box"
      [] mesh = "HalfTorus" -> "Torus"
      [] OTHER -> mesh

PrepareScene(s, images) ==
    LET textured == LoadSceneTextures(Called(s, "LoadSceneTextures", ""), images)
    IN  IF textured.ub
        THEN textured
        ELSE LoadMeshes(
                SetupSceneLights(Called(
                   DefineObjectMaterials(Called(textured, "DefineObjectMaterials", "")),
                   "SetupSceneLights", "")))

\* ============================================================== rendering
\* The placement routines are straight-line code: each is the sequence of
\* shader and draw calls it makes, lengths and angles in ten-thousandths.
Transform(scaleXYZ, XrotationDegrees, YrotationDegrees, ZrotationDegrees, positionXYZ) ==
    [op |-> "SetTransformations", scaleXYZ |-> scaleXYZ,
     rotation |-> <<XrotationDegrees, YrotationDegrees, ZrotationDegrees>>,
     positionXYZ |-> positionXYZ]

Color(rgba) == [op |-> "SetShaderColor", color |-> rgba]

Texture(textureTag) == [op |-> "SetShaderTexture", tag |-> textureTag]

UVScale(uv) == [op |-> "SetTextureUVScale", uv |-> uv]

Mat(materialTag) == [op |-> "SetShaderMaterial", tag |-> materialTag]

Draw(mesh, args) == [op |-> "Draw", mesh |-> mesh, args |-> args]

\* ---- LoadLamp
LoadLamp(xPosition, yPosition, zPosition) ==
    <<Transform(<<7500, 10000, 7500>>, 0, 0, 0, <<-42000 + xPosition, 53000 + yPosition, -16000 + zPosition>>),
      UVScale(<<40000, 10000>>),
      Texture("lamp-shade"),
      Mat("cloth"),
      Draw("TaperedCylinder", "false, false, true"),
      Transform(<<3500, 3500, 1000>>, 900000, 0, 0, <<-42000 + xPosition, 63000 + yPosition, -16000 + zPosition>>),
      UVScale(<<40000, 10000>>),
      Texture("lamp-rim"),
      Mat("metal"),
      Draw("Torus", ""),
      Transform(<<6500, 6500, 1000>>, 900000, 0, 0, <<-42000 + xPosition, 53000 + yPosition, -16000 + zPosition>>),
      UVScale(<<40000, 10000>>),
      Texture("lamp-rim"),
      Mat("metal"),
      Draw("Torus", ""),
      Transform(<<500, 7500, 500>>, 0, 0, 0, <<-42000 + xPosition, 48500 + yPosition, -16000 + zPosition>>),
      UVScale(<<40000, 10000>>),
      Texture("lamp-rim"),
      Mat("metal"),
      Draw("Cylinder", ""),
      Transform(<<250, 10000, 250>>, 1600000, 0, 0, <<-42000 + xPosition, 48500 + yPosition, -16000 + zPosition>>),
      UVScale(<<40000, 10000>>),
      Texture("lamp-rim"),
      Mat("metal"),
      Draw("Cylinder", ""),
      Transform(<<250, 10000, 250>>, 1600000, 1200000, 0, <<-42000 + xPosition, 48500 + yPosition, -16000 + zPosition>>),
      UVScale(<<40000, 10000>>),
      Texture("lamp-rim"),
      Mat("metal"),
      Draw("Cylinder", ""),
      Transform(<<250, 10000, 250>>, 1600000, 2400000, 0, <<-42000 + xPosition, 48500 + yPosition, -16000 + zPosition>>),
      UVScale(<<40000, 10000>>),
      Texture("lamp-rim"),
      Mat("metal"),
      Draw("Cylinder", "")>>

\* ---- LoadMonitor
LoadMonitor(xPosition, yPosition, zPosition) ==
    <<Transform(<<30000, 20000, 2500>>, 0, 0, 0, <<0 + xPosition, 40680 + yPosition, 50050 + zPosition>>),
      UVScale(<<40000, 10000>>),
      Color(<<1000, 1000, 1000, 10000>>),
      Mat("plastic"),
      Draw("Box", ""),
      Transform(<<30000, 2500, 2500>>, 0, 0, 0, <<0 + xPosition, 30000 + yPosition, 50000 + zPosition>>),
      UVScale(<<40000, 10000>>),
      Texture("plastic"),
      Mat("plastic"),
      Draw("Box", ""),
      Transform(<<30000, 2500, 2500>>, 0, 0, 0, <<0 + xPosition, 50000 + yPosition, 50000 + zPosition>>),
      UVScale(<<40000, 10000>>),
      Texture("plastic"),
      Mat("plastic"),
      Draw("Box", ""),
      Transform(<<2500, 19000, 2500>>, 0, 0, 0, <<15000 + xPosition, 40000 + yPosition, 50000 + zPosition>>),
      UVScale(<<40000, 10000>>),
      Texture("plastic"),
      Mat("plastic"),
      Draw("Box", ""),
      Transform(<<2500, 19000, 2500>>, 0, 0, 0, <<-14900 + xPosition, 40000 + yPosition, 50000 + zPosition>>),
      UVScale(<<40000, 10000>>),
      Texture("plastic"),
      Mat("plastic"),
      Draw("Box", ""),
      Transform(<<1500, 2500, 2500>>, 900000, 0, 0, <<-14700 + xPosition, 48780 + yPosition, 48750 + zPosition>>),
      UVScale(<<40000, 10000>>),
      Texture("plastic"),
      Mat("plastic"),
      Draw("Cylinder", ""),
      Transform(<<1500, 2500, 2500>>, 900000, 0, 0, <<-14700 + xPosition, 31200 + yPosition, 48700 + zPosition>>),
      UVScale(<<40000, 10000>>),
      Texture("plastic"),
      Mat("plastic"),
      Draw("Cylinder", ""),
      Transform(<<1500, 2500, 2500>>, 900000, 0, 0, <<14825 + xPosition, 31250 + yPosition, 48700 + zPosition>>),
      UVScale(<<40000, 10000>>),
      Texture("plastic"),
      Mat("plastic"),
      Draw("Cylinder", ""),
      Transform(<<1500, 2500, 2500>>, 900000, 0, 0, <<14825 + xPosition, 48780 + yPosition, 48700 + zPosition>>),
      UVScale(<<40000, 10000>>),
      Texture("plastic"),
      Mat("plastic"),
      Draw("Cylinder", ""),
      Transform(<<10000, 500, 10000>>, 0, 0, 0, <<0 + xPosition, 25500 + yPosition, 50000 + zPosition>>),
      UVScale(<<40000, 10000>>),
      Texture("plastic"),
      Mat("plastic"),
      Draw("Box", ""),
      Transform(<<10000, 500, 10000>>, -650000, 0, 0, <<0 + xPosition, 30250 + yPosition, 47350 + zPosition>>),
      UVScale(<<40000, 10000>>),
      Texture("plastic"),
      Mat("plastic"),
      Draw("Box", ""),
      Transform(<<300, 10000, 300>>, 0, 0, 900000, <<5000 + xPosition, 25750 + yPosition, 45300 + zPosition>>),
      UVScale(<<40000, 10000>>),
      Texture("plastic"),
      Mat("plastic"),
      Draw("Cylinder", ""),
      Transform(<<15500, 12000, 10000>>, 900000, 0, 0, <<0 + xPosition, 40000 + yPosition, 48550 + zPosition>>),
      UVScale(<<40000, 10000>>),
      Texture("plastic"),
      Mat("plastic"),
      Draw("Plane", "")>>

\* ---- LoadKeyboard: the base, the keycap loops, the stand
KeyboardBase(xPosition, yPosition, zPosition) ==
    <<Transform(<<20000, 5000, 500>>, -800000, 0, 0, <<0 + xPosition, 40680 + yPosition, 50050 + zPosition>>),
      UVScale(<<40000, 10000>>),
      Texture("plastic"),
      Mat("plastic"),
      Draw("Box", "")>>

KeyboardStand(xPosition, yPosition, zPosition) ==
    <<Transform(<<20000, 1500, 50>>, -1200000, 0, 0, <<0 + xPosition, 40680 + yPosition, 48000 + zPosition>>),
      UVScale(<<40000, 10000>>),
      Texture("plastic"),
      Mat("plastic"),
      Draw("Box", "")>>

\* GenerateKeyCap placing the keycap at a fixed depth
GenerateKeyCapFixedDepth(xPosition, yPosition, zPosition) ==
    <<Transform(<<750, 750, 250>>, -800000, 0, 0, <<-9000 + xPosition, 41200 + yPosition, 48500>>),
      UVScale(<<40000, 10000>>),
      Texture("plastic"),
      Mat("plastic"),
      Draw("Box", "")>>

\* ---- GenerateKeyCap
GenerateKeyCap(xPosition, yPosition, zPosition) ==
    <<Transform(<<750, 750, 250>>, -800000, 0, 0, <<-9000 + xPosition, 41200 + yPosition, 48500 + zPosition>>),
      UVScale(<<40000, 10000>>),
      Texture("plastic"),
      Mat("plastic"),
      Draw("Box", "")>>

\* ---- LoadMouse
LoadMouse(xPosition, yPosition, zPosition) ==
    <<Transform(<<1500, 2500, 1000>>, 900000, 0, 0, <<-9000 + xPosition, 41200 + yPosition, 48500 + zPosition>>),
      UVScale(<<40000, 10000>>),
      Texture("plastic"),
      Mat("plastic"),
      Draw("Sphere", ""),
      Transform(<<1000, 800, 2000>>, 0, 900000, 0, <<-9000 + xPosition, 41400 + yPosition, 47500 + zPosition>>),
      UVScale(<<40000, 10000>>),
      Texture("plastic"),
      Mat("plastic"),
      Draw("HalfTorus", "")>>

\* ---- LoadPhone
LoadPhone(xPosition, yPosition, zPosition) ==
    <<Transform(<<1000, 300, 5000>>, 0, 0, 0, <<-9000 + xPosition, 41200 + yPosition, 48500 + zPosition>>),
      UVScale(<<40000, 10000>>),
      Texture("plastic"),
      Mat("plastic"),
      Draw("Box", ""),
      Transform(<<1000, 300, 5000>>, 0, 0, 0, <<-5000 + xPosition, 41200 + yPosition, 48500 + zPosition>>),
      UVScale(<<40000, 10000>>),
      Texture("plastic"),
      Mat("plastic"),
      Draw("Box", ""),
      Transform(<<4000, 300, 1000>>, 0, 0, 0, <<-7000 + xPosition, 41200 + yPosition, 45850 + zPosition>>),
      UVScale(<<40000, 10000>>),
      Texture("plastic"),
      Mat("plastic"),
      Draw("Box", ""),
      Transform(<<4000, 300, 1000>>, 0, 0, 0, <<-7000 + xPosition, 41200 + yPosition, 51000 + zPosition>>),
      UVScale(<<40000, 10000>>),
      Texture("plastic"),
      Mat("plastic"),
      Draw("Box", ""),
      Transform(<<500, 300, 500>>, 0, 0, 0, <<-9000 + xPosition, 41000 + yPosition, 51000 + zPosition>>),
      UVScale(<<40000, 10000>>),
      Texture("plastic"),
      Mat("plastic"),
      Draw("Cylinder", ""),
      Transform(<<500, 300, 500>>, 0, 0, 0, <<-9010 + xPosition, 41000 + yPosition, 45875 + zPosition>>),
      UVScale(<<40000, 10000>>),
      Texture("plastic"),
      Mat("plastic"),
      Draw("Cylinder", ""),
      Transform(<<500, 300, 500>>, 0, 0, 0, <<-5000 + xPosition, 41000 + yPosition, 45900 + zPosition>>),
      UVScale(<<40000, 10000>>),
      Texture("plastic"),
      Mat("plastic"),
      Draw("Cylinder", ""),
      Transform(<<500, 300, 500>>, 0, 0, 0, <<-5000 + xPosition, 41000 + yPosition, 51000 + zPosition>>),
      UVScale(<<40000, 10000>>),
      Texture("plastic"),
      Mat("plastic"),
      Draw("Cylinder", ""),
      Transform(<<4000, 250, 5500>>, 0, 0, 0, <<-7000 + xPosition, 41250 + yPosition, 48500 + zPosition>>),
      UVScale(<<40000, 10000>>),
      Color(<<2000, 2000, 2000, 10000>>),
      Mat("plastic"),
      Draw("Box", "")>>

\* ---- LoadBook
LoadBook(xPosition, yPosition, zPosition, xRotation, yRotation, zRotation) ==
    <<Transform(<<500, 12000, 10000>>, 0 + xRotation, 0 + yRotation, 0 + zRotation, <<-2000 + xPosition, 43000 + yPosition, 48500 + zPosition>>),
      UVScale(<<10000, 10000>>),
      Texture("BookBack"),
      Mat("BookCover"),
      Draw("Box", ""),
      Transform(<<500, 12000, 10000>>, 0 + xRotation, 0 + yRotation, 0 + zRotation, <<0 + xPosition, 43000 + yPosition, 48500 + zPosition>>),
      UVScale(<<10000, 10000>>),
      Texture("BookFront"),
      Mat("BookCover"),
      Draw("Box", ""),
      Transform(<<2500, 12000, 500>>, 0 + xRotation, 0 + yRotation, 0 + zRotation, <<-1025 + xPosition, 43000 + yPosition, 53300 + zPosition>>),
      UVScale(<<10000, 10000>>),
      Texture("BookSpine"),
      Mat("BookCover"),
      Draw("Box", ""),
      Transform(<<1700, 11000, 9500>>, 0 + xRotation, 0 + yRotation, 0 + zRotation, <<-900 + xPosition, 43000 + yPosition, 48500 + zPosition>>),
      UVScale(<<10000, 10000>>),
      Texture("Pages"),
      Mat("BookCover"),
      Draw("Box", "")>>

\* ---- RenderScene: floor, wall, cup, cup handle and desk
SceneBase ==
    <<Transform(<<200000, 10000, 100000>>, 0, 0, 0, <<0, 0, 70000>>),
      Color(<<10000, 10000, 10000, 10000>>),
      Texture("WoodFloor"),
      UVScale(<<40000, 20000>>),
      Mat("woodFloor"),
      Draw("Plane", ""),
      Transform(<<200000, 10000, 50000>>, 900000, 0, 0, <<0, 50000, -30000>>),
      Texture("wall"),
      Mat("wall"),
      Draw("Plane", ""),
      Transform(<<2500, 5000, 2500>>, 1800000, 0, 0, <<-37500, 44500, 10000>>),
      Texture("cup"),
      UVScale(<<20000, 20000>>),
      Mat("porcelain"),
      Draw("TaperedCylinder", "true, false, true"),
      Transform(<<1300, 1500, 1300>>, 900000, -80000, 900000, <<-37500, 42200, 11700>>),
      Texture("cup"),
      UVScale(<<20000, 20000>>),
      Mat("porcelain"),
      Draw("HalfTorus", ""),
      Transform(<<100000, 5000, 50000>>, 0, 0, 0, <<-4000, 36500, 0>>),
      Mat("wood"),
      Texture("table-top"),
      UVScale(<<10000, 7500>>),
      Draw("BoxSide", "top"),
      Texture("table-side"),
      UVScale(<<20000, 2500>>),
      Draw("BoxSide", "left"),
      Draw("BoxSide", "right"),
      UVScale(<<40000, 2500>>),
      Draw("BoxSide", "back"),
      Draw("BoxSide", "front"),
      Draw("BoxSide", "bottom"),
      Transform(<<95000, 5000, 45000>>, 0, 0, 0, <<-4000, 32000, 0>>),
      Texture("base"),
      Mat("metal"),
      UVScale(<<40000, 10000>>),
      Draw("BoxSide", "back"),
      Draw("BoxSide", "front"),
      Draw("BoxSide", "bottom"),
      UVScale(<<20000, 5000>>),
      Draw("BoxSide", "left"),
      Draw("BoxSide", "right"),
      Transform(<<45000, 5000, 2500>>, 0, 900000, 0, <<-50250, 7500, 0>>),
      UVScale(<<20000, 10000>>),
      Mat("metal"),
      Draw("Box", ""),
      Transform(<<45000, 5000, 2500>>, 0, 900000, 0, <<42100, 7500, 0>>),
      UVScale(<<20000, 10000>>),
      Mat("metal"),
      Draw("Box", ""),
      Transform(<<30000, 2500, 5000>>, 0, 0, 900000, <<42100, 15200, -20000>>),
      UVScale(<<40000, 10000>>),
      Mat("metal"),
      Draw("Box", ""),
      Transform(<<30000, 2500, 5000>>, 0, 0, 900000, <<42100, 15200, 20000>>),
      UVScale(<<40000, 10000>>),
      Mat("metal"),
      Draw("Box", ""),
      Transform(<<30000, 2500, 5000>>, 0, 0, 900000, <<-50250, 15200, 20000>>),
      UVScale(<<40000, 10000>>),
      Mat("metal"),
      Draw("Box", ""),
      Transform(<<30000, 2500, 5000>>, 0, 0, 900000, <<-50250, 15200, -20000>>),
      UVScale(<<40000, 10000>>),
      Mat("metal"),
      Draw("Box", "")>>

\* the keycap loops of LoadKeyboard: keySpace, yMod and zMod as the code
\* steps them
RECURSIVE KeyColumns(_, _, _, _, _, _, _)
KeyColumns(xPosition, yPosition, zPosition, i, keySpace, yMod, zMod) ==
    IF i < 19
    THEN GenerateKeyCap(xPosition + keySpace, yPosition + yMod, zPosition + zMod)
         \o KeyColumns(xPosition, yPosition, zPosition, i + 1, keySpace + 1000,
                       yMod, zMod)
    ELSE <<>>

\* the rows without "keySpace = 0": each row goes on where the last ended
RECURSIVE KeyRowsWithoutReset(_, _, _, _, _, _)
KeyRowsWithoutReset(xPosition, yPosition, zPosition, j, yMod, zMod) ==
    IF j < 3
    THEN KeyColumns(xPosition, yPosition, zPosition, 0, 19000 * j, yMod, zMod)
         \o KeyRowsWithoutReset(xPosition, yPosition, zPosition, j + 1,
                                yMod - 250, zMod + 1500)
    ELSE <<>>

RECURSIVE KeyRows(_, _, _, _, _, _)
KeyRows(xPosition, yPosition, zPosition, j, yMod, zMod) ==
    IF j < 3
    THEN KeyColumns(xPosition, yPosition, zPosition, 0, 0, yMod, zMod)
         \o KeyRows(xPosition, yPosition, zPosition, j + 1, yMod - 250,
                    zMod + 1500)
    ELSE <<>>

LoadKeyboard(xPosition, yPosition, zPosition) ==
    KeyboardBase(xPosition, yPosition, zPosition)
    \o KeyRows(xPosition, yPosition, zPosition, 0, 0, 0)
    \o KeyboardStand(xPosition, yPosition, zPosition)

\* the book loop running one book further
RECURSIVE BookLoopNine(_, _)
BookLoopNine(i, BookSpacer) ==
    IF i < 9
    THEN LoadBook(BookSpacer, 2500, -63500, 0, 0, 0)
         \o BookLoopNine(i + 1, BookSpacer + 2500)
    ELSE <<>>

\* the book loop of RenderScene
RECURSIVE BookLoop(_, _)
BookLoop(i, BookSpacer) ==
    IF i < 8
    THEN LoadBook(BookSpacer, 2500, -63500, 0, 0, 0)
         \o BookLoop(i + 1, BookSpacer + 2500)
    ELSE <<>>

\* every shader and draw call of one RenderScene, in order
RenderSceneCalls ==
    SceneBase
    \o LoadLamp(2500, 0, -2000)
    \o LoadMonitor(-5000, 14000, -65000)
    \o LoadKeyboard(-5000, 0, -35000)
    \o LoadMouse(20000, -1000, -34000)
    \o LoadPhone(27000, 0, -39000)
    \o BookLoop(0, 20000)
    \o LoadBook(16800, 2500, -63500, 0, 0, -75000)

\* ---------------------------------------------------- the shader helpers
SetTransformations(s, call) ==
    [s EXCEPT !.shader.model =
        [scaleXYZ |-> call.scaleXYZ, rotation |-> call.rotation,
         positionXYZ |-> call.positionXYZ]]

\* SetShaderColor adding the colour to the one the shader already holds
SetShaderColorBlending(s, color) ==
    [s EXCEPT !.shader.bUseTexture = FALSE,
              !.shader.objectColor =
                  IF ToString(s.shader.objectColor) = ToString(Unset)
                  THEN color
                  ELSE [i \in 1..4 |-> s.shader.objectColor[i] + color[i]]]

\* SetShaderColor leaving bUseTexture as it was
SetShaderColorKeepingTexture(s, color) ==
    [s EXCEPT !.shader.objectColor = color]

SetShaderColor(s, color) ==
    [s EXCEPT !.shader.bUseTexture = FALSE, !.shader.objectColor = color]

SetTextureUVScale(s, uv) == [s EXCEPT !.shader.UVscale = uv]

\* one call of the frame: the object after it, and the frame's record of
\* sampler values, material lookups and draws
Issue(run, call, material) ==
    CASE call.op = "SetTransformations" ->
            [run EXCEPT !.s = SetTransformations(run.s, call),
                        !.frame.since = @ \cup {call.op}]
      [] call.op = "SetShaderColor" ->
            [run EXCEPT !.s = SetShaderColor(run.s, call.color),
                        !.frame.since = @ \cup {call.op}]
      [] call.op = "SetShaderTexture" ->
            LET after == SetShaderTexture(run.s, call.tag) IN
            [run EXCEPT !.s = after,
                        !.frame.samplers = Append(run.frame.samplers,
                            [tag |-> call.tag,
                             slot |-> after.shader.objectTexture]),
                        !.frame.since = @ \cup {call.op}]
      [] call.op = "SetTextureUVScale" ->
            [run EXCEPT !.s = SetTextureUVScale(run.s, call.uv),
                        !.frame.since = @ \cup {call.op}]
      [] call.op = "SetShaderMaterial" ->
            LET after == SetShaderMaterial(run.s, call.tag, material) IN
            [run EXCEPT !.s = after,
                        !.frame.materials = Append(run.frame.materials,
                            [tag |-> call.tag,
                             material |-> after.shader.material]),
                        !.frame.since = @ \cup {call.op}]
      [] call.op = "Draw" ->
            [run EXCEPT !.frame.draws = Append(run.frame.draws,
                            [mesh |-> call.mesh, args |-> call.args,
                             shader |-> run.s.shader,
                             set |-> run.frame.since]),
                        !.frame.since = {}]

\* calls[lo..hi] issued in order (split in halves, and each half evaluated
\* before the next begins, to keep the evaluation shallow)
RECURSIVE IssueRange(_, _, _, _, _)
IssueRange(run, calls, lo, hi, material) ==
    IF lo > hi
    THEN run
    ELSE IF lo = hi
    THEN Issue(run, calls[lo], material)
    ELSE LET mid == (lo + hi) \div 2
             half == IssueRange(run, calls, lo, mid, material)
         IN  IF half.s.ub
             THEN half
             ELSE IssueRange(half, calls, mid + 1, hi, material)

\* RenderScene beginning with a write of pointLights[0].position
RenderSceneMovingLight(s, material) ==
    IssueRange([s |-> [s EXCEPT !.shader.lightWrites =
                          Append(@, [slot |-> 0, field |-> "position"])],
                frame |-> NoFrame],
               RenderSceneCalls, 1, Len(RenderSceneCalls), material)

\* material: what the uninitialised local of SetShaderMaterial holds
RenderScene(s, material) ==
    IssueRange([s |-> s, frame |-> NoFrame], RenderSceneCalls, 1,
               Len(RenderSceneCalls), material)

\* ---------------------------------------------------- scene-level actions
GoodImage == [ok |-> TRUE, colorChannels |-> 3]
FailedImages == {NullImage, [ok |-> TRUE, colorChannels |-> 1]}

\* PrepareScene calls made so far
Prepares == Len(meshes) \div Len(PreparedMeshes)

\* image loads that have failed so far
Failed == Prepares * Len(SceneTextures) - m_loadedTextures

\* the sets of at most b files
FailingFiles ==
    [b \in 0..MaxFailed |->
        {F \in SUBSET (1..Len(SceneTextures)) : Cardinality(F) <= b}]

\* what stbi_load delivers for the 13 files of one LoadSceneTextures, with
\* at most b of them failing
SceneImages(b) ==
    UNION {{[k \in 1..Len(SceneTextures) |-> IF k \in F THEN bad[k] ELSE GoodImage] :
              bad \in [F -> FailedImages]} : F \in FailingFiles[b]}

\* what the object may hold once m_textureIDs has been written out of
\* bounds: the count as incremented, or a count the stray write clobbered
AfterOutOfBounds(s) ==
    {[s EXCEPT !.m_loadedTextures = n] : n \in {s.m_loadedTextures, 0}}

DoPrepareScene ==
    /\ ~ub
    /\ Prepares < MaxPrepares
    /\ \E images \in SceneImages(MaxFailed - Failed) :
          LET s == PrepareScene(Self, images) IN
          /\ IF s.ub
             THEN \E t \in AfterOutOfBounds(s) : Commit(t)
             ELSE Commit(s)
          /\ last' = [Did("PrepareScene", NoTag, "none") EXCEPT
                         !.calls = s.trace]
    /\ frame' = NoFrame

DoRenderScene ==
    /\ ~ub
    /\ \E material \in IndeterminateMaterials :
          LET run == RenderScene(Self, material) IN
          /\ Commit(run.s)
          /\ frame' = run.frame
    /\ last' = Did("RenderScene", NoTag, "none")

NextScene ==
    \/ DoPrepareScene
    \/ DoRenderScene

SpecScene == Init /\ [][NextScene]_vars

\* ------------------------------------------- scene preparation on its own
\* the sets of at most b files, for the wider failure budget
LoadFailingFiles ==
    [b \in 0..MaxLoadFailed |->
        {F \in SUBSET (1..Len(SceneTextures)) : Cardinality(F) <= b}]

\* what stbi_load delivers for the 13 files, at most b of them failing
LoadImages(b) ==
    UNION {{[k \in 1..Len(SceneTextures) |-> IF k \in F THEN bad[k] ELSE GoodImage] :
              bad \in [F -> FailedImages]} : F \in LoadFailingFiles[b]}

\* PrepareScene with any of the files failing; the images delivered are
\* kept in last.image
DoPrepareSceneWithFailures ==
    /\ ~ub
    /\ Prepares < MaxPrepares
    /\ \E images \in LoadImages(MaxLoadFailed - Failed) :
          LET s == PrepareScene(Self, images) IN
          /\ IF s.ub
             THEN \E t \in AfterOutOfBounds(s) : Commit(t)
             ELSE Commit(s)
          /\ last' = [Did("PrepareScene", NoTag, "none") EXCEPT
                         !.calls = s.trace, !.image = images]
    /\ frame' = NoFrame

NextPrepare == DoPrepareSceneWithFailures

SpecPrepare == Init /\ [][NextPrepare]_vars

\* ------------------------------------------- one placement routine called
\* the placement routines, each callable with a position of its own
PlacementRoutines ==
    {"LoadLamp", "LoadMonitor", "LoadKeyboard", "GenerateKeyCap",
     "LoadMouse", "LoadPhone", "LoadBook"}

\* the calls a routine makes for a position and, LoadBook only, a rotation
PlacementCalls(routine, p, r) ==
    CASE routine = "LoadLamp"       -> LoadLamp(p[1], p[2], p[3])
      [] routine = "LoadMonitor"    -> LoadMonitor(p[1], p[2], p[3])
      [] routine = "LoadKeyboard"   -> LoadKeyboard(p[1], p[2], p[3])
      [] routine = "GenerateKeyCap" -> GenerateKeyCap(p[1], p[2], p[3])
      [] routine = "LoadMouse"      -> LoadMouse(p[1], p[2], p[3])
      [] routine = "LoadPhone"      -> LoadPhone(p[1], p[2], p[3])
      [] routine = "LoadBook"       -> LoadBook(p[1], p[2], p[3], r[1], r[2], r[3])

\* positions the routines are called with: each coordinate the default 0 or
\* one that RenderScene passes to LoadMonitor or LoadMouse
PlacementPositions ==
    {<<x, y, z>> : x \in {0, -5000, 20000}, y \in {0, 14000},
                   z \in {0, -65000, -34000}}

\* the shifts of up to MaxShift quarter units along each axis
Shifts ==
    {<<a * 2500, b * 2500, c * 2500>> :
        a \in -MaxShift..MaxShift, b \in -MaxShift..MaxShift,
        c \in -MaxShift..MaxShift}

\* the rotations LoadBook is called with: the default and the leaning book's
BookRotations == {<<0, 0, 0>>, <<0, 0, -75000>>}

DoLoadObject ==
    /\ ~ub
    /\ \E routine \in PlacementRoutines, p \in PlacementPositions,
          r \in BookRotations, material \in IndeterminateMaterials :
          /\ routine # "LoadBook" => r = <<0, 0, 0>>
          /\ LET calls == PlacementCalls(routine, p, r)
                 run == IssueRange([s |-> Self, frame |-> NoFrame], calls, 1,
                                   Len(calls), material)
             IN  /\ Commit(run.s)
                 /\ frame' = run.frame
          /\ last' = [Did(routine, NoTag, "none") EXCEPT
                         !.out = [position |-> p, rotation |-> r]]

NextPlacement == DoLoadObject

SpecPlacement == Init /\ [][NextPlacement]_vars

\* ================================================================= claims
\* indices of the registered entries whose tag is `tag`
TextureMatches(tag) ==
    {i \in 0..(m_loadedTextures - 1) : m_textureIDs[i].tag = tag}

\* positions of the materials whose tag is `tag`
MaterialMatches(tag) ==
    {i \in 1..Len(m_objectMaterials) : m_objectMaterials[i].tag = tag}

Lowest(S) == CHOOSE i \in S : \A j \in S : i <= j

\* C1: FindTextureSlot(tag) returns the lowest index below m_loadedTextures
\* whose registered tag equals tag, returns -1 when no registered entry has
\* the tag, and reads no entry at an index >= m_loadedTextures.
C1_FindTextureSlotLowest ==
    last.op = "FindTextureSlot" =>
        /\ TextureMatches(last.tag) # {} =>
              last.ret = Lowest(TextureMatches(last.tag))
        /\ TextureMatches(last.tag) = {} => last.ret = -1
        /\ \A i \in last.reads : 0 <= i /\ i < m_loadedTextures

\* a lookup of a tag registered twice, answered with the lower slot
C1_Witness ==
    /\ last.op = "FindTextureSlot"
    /\ Cardinality(TextureMatches(last.tag)) >= 2
    /\ last.ret = 1
    /\ last.reads = {0, 1}
    /\ m_loadedTextures = 3

\* C2: FindTextureID agrees with FindTextureSlot: when the slot is i >= 0
\* the ID returned is the one stored in entry i, and when the slot is -1 the
\* ID returned is -1.
C2_IDAgreesWithSlot ==
    last.op = "FindTextureID" =>
        LET i == FindTextureSlot(Self, last.tag).ret IN
        /\ i >= 0 => last.ret = m_textureIDs[i].ID
        /\ i = -1 => last.ret = -1

\* a lookup that finds its tag at slot 1, whose ID is not slot + 1
C2_Witness ==
    /\ last.op = "FindTextureID"
    /\ FindTextureSlot(Self, last.tag).ret = 1
    /\ last.ret = 3
    /\ m_textureIDs[1].ID = 3

\* C3: when the list holds a material with the passed tag, FindMaterial
\* returns true and the output material has the diffuseColor, specularColor
\* and shininess of the first such material in list order.
C3_FindMaterialFirstMatch ==
    (last.op = "FindMaterial" /\ MaterialMatches(last.tag) # {}) =>
        LET first == m_objectMaterials[Lowest(MaterialMatches(last.tag))] IN
        /\ last.ret = TRUE
        /\ last.out.diffuseColor = first.diffuseColor
        /\ last.out.specularColor = first.specularColor
        /\ last.out.shininess = first.shininess

\* a successful lookup of a tag that is in the list twice, which changed the
\* caller's material
C3_Witness ==
    /\ last.op = "FindMaterial"
    /\ Cardinality(MaterialMatches(last.tag)) = 2
    /\ last.ret = TRUE
    /\ last.out # last.material
    /\ last.out.shininess = 320

\* C4: FindMaterial returns true only when a material with the passed tag is
\* in the list; otherwise it returns false and leaves the output unchanged.
C4_FindMaterialTrueOnlyIfFound ==
    last.op = "FindMaterial" =>
        /\ last.ret = TRUE => MaterialMatches(last.tag) # {}
        /\ MaterialMatches(last.tag) = {} =>
              last.ret = FALSE /\ last.out = last.material

\* the tags and GPU IDs a CreateGLTexture step is about
Appended ==
    /\ m_loadedTextures \in Slots
    /\ m_loadedTextures' = m_loadedTextures + 1
    /\ gl'.gen = gl.gen + 1
    /\ m_textureIDs' = [m_textureIDs EXCEPT ![m_loadedTextures] =
                           [ID |-> gl'.gen, tag |-> last'.tag]]

Undecodable(image) ==
    ~image.ok \/ (image.colorChannels # 3 /\ image.colorChannels # 4)

\* C6: CreateGLTexture returns true exactly when it appends one entry (the
\* new GPU ID with the passed tag) at index m_loadedTextures and increments
\* m_loadedTextures; when the image is not decoded or has neither 3 nor 4
\* channels it returns false and leaves the count and the entries unchanged.
C6_CreateReturnsTrueIffAppended ==
    [][last'.op = "CreateGLTexture" =>
          /\ (last'.ret = TRUE) <=> Appended
          /\ Undecodable(last'.image) =>
                /\ last'.ret = FALSE
                /\ UNCHANGED <<m_loadedTextures, m_textureIDs>>]_vars

\* a decoded two-channel image refused with entries already registered
C6_Witness ==
    /\ last.op = "CreateGLTexture"
    /\ last.image.ok
    /\ last.image.colorChannels = 2
    /\ last.ret = FALSE
    /\ m_loadedTextures = 2

\* C7: whenever the image was decoded, CreateGLTexture has freed the image
\* data and unbound the texture (binding 0) when it returns, on every return
\* path.
C7_CreateFreesAndUnbinds ==
    [][(last'.op = "CreateGLTexture" /\ last'.image.ok) =>
          /\ gl'.images = gl.images
          /\ gl'.bound[gl'.active] = NoTexture]_vars

\* C8: after DestroyGLTextures every GPU ID that was registered in slots
\* 0..m_loadedTextures-1 has been deleted and no new GPU texture name has
\* been generated by the call.
C8_DestroyReleasesAll ==
    [][last'.op = "DestroyGLTextures" =>
          /\ \A i \in 0..(m_loadedTextures - 1) :
                m_textureIDs[i].ID \in gl'.deleted
          /\ gl'.gen = gl.gen]_vars

\* C5: the count of registered textures stays <= 16 and CreateGLTexture
\* never writes a registry entry at an index outside 0..15.
C5_CapacityRespected ==
    /\ m_loadedTextures <= MaxTextures
    /\ ~ub

\* tags registered in slots 0..m_loadedTextures-1
RegisteredTags == {m_textureIDs[i].tag : i \in 0..(m_loadedTextures - 1)}

\* C9: after LoadSceneTextures BindGLTextures has bound entry i to unit i
\* for every i < m_loadedTextures and selected no other unit; for every
\* registered tag t, FindTextureSlot(t) is a unit bound to the GPU ID
\* registered under t, and every sampler value SetShaderTexture passed for a
\* registered tag names such a unit.
C9_SamplerNamesBoundUnit ==
    (~ub /\ Prepares >= 1) =>
        /\ \A i \in 0..(m_loadedTextures - 1) :
              gl.bound[i] = m_textureIDs[i].ID
        /\ gl.touched = 0..(m_loadedTextures - 1)
        /\ \A t \in RegisteredTags :
              LET i == FindTextureSlot(Self, t).ret IN
              /\ i \in 0..(m_loadedTextures - 1)
              /\ m_textureIDs[i].tag = t
              /\ gl.bound[i] = FindTextureID(Self, t).ret
        /\ \A k \in 1..Len(frame.samplers) :
              LET call == frame.samplers[k] IN
              call.tag \in RegisteredTags =>
                 /\ call.slot \in 0..(m_loadedTextures - 1)
                 /\ m_textureIDs[call.slot].tag = call.tag
                 /\ gl.bound[call.slot] = m_textureIDs[call.slot].ID

\* a frame rendered after a load in which an earlier file had an unsupported
\* channel count: "plastic" sits in slot 7 with GPU ID 9, bound to unit 7
C9_Witness ==
    /\ ~ub
    /\ last.op = "RenderScene"
    /\ m_loadedTextures = 12
    /\ \E k \in 1..Len(frame.samplers) :
          frame.samplers[k] = [tag |-> "plastic", slot |-> 7]
    /\ m_textureIDs[7] = [ID |-> 9, tag |-> "plastic"]
    /\ gl.bound[7] = 9

\* tags LoadSceneTextures registers
SceneTags == {SceneTextures[k].tag : k \in 1..Len(SceneTextures)}

\* C10: every tag passed to SetShaderTexture during RenderScene is a tag
\* LoadSceneTextures registers, and when all 13 loads succeeded no lookup
\* returns -1: every sampler value is a slot in 0..12.
C10_RenderTagsRegistered ==
    (~ub /\ last.op = "RenderScene") =>
        /\ \A k \in 1..Len(frame.samplers) :
              frame.samplers[k].tag \in SceneTags
        /\ (Prepares = 1 /\ Failed = 0) =>
              \A k \in 1..Len(frame.samplers) :
                 frame.samplers[k].slot \in 0..12

\* a frame rendered after all 13 loads succeeded, with its texture lookups
\* recorded, the first for "WoodFloor" (slot 4) and the last for "Pages"
C10_Witness ==
    /\ ~ub
    /\ last.op = "RenderScene"
    /\ Prepares = 1
    /\ m_loadedTextures = 13
    /\ Len(frame.samplers) > 100
    /\ frame.samplers[1] = [tag |-> "WoodFloor", slot |-> 4]
    /\ frame.samplers[Len(frame.samplers)] = [tag |-> "Pages", slot |-> 12]

\* tags DefineObjectMaterials defines
DefinedTags ==
    {DefineObjectMaterials(Self).m_objectMaterials[i].tag :
        i \in (Len(m_objectMaterials) + 1)..(Len(m_objectMaterials) + 8)}

\* the shader values of the first material tagged `tag`
FirstMaterial(tag) ==
    LET m == m_objectMaterials[Lowest(MaterialMatches(tag))] IN
    [diffuseColor |-> m.diffuseColor, specularColor |-> m.specularColor,
     shininess |-> m.shininess]

\* C11: every material tag passed to SetShaderMaterial during RenderScene
\* is one of the tags DefineObjectMaterials defines, and in a frame rendered
\* after PrepareScene every material lookup finds a material with the tag
\* and puts that material's values into the shader.
C11_RenderMaterialsDefined ==
    (~ub /\ last.op = "RenderScene") =>
        /\ \A k \in 1..Len(frame.materials) :
              frame.materials[k].tag \in DefinedTags
        /\ Prepares >= 1 =>
              \A k \in 1..Len(frame.materials) :
                 /\ MaterialMatches(frame.materials[k].tag) # {}
                 /\ frame.materials[k].material =
                       FirstMaterial(frame.materials[k].tag)

\* a frame rendered after PrepareScene whose first material lookup is the
\* floor's and whose last is a book's, both found
C11_Witness ==
    /\ ~ub
    /\ last.op = "RenderScene"
    /\ Prepares = 1
    /\ Len(m_objectMaterials) = 8
    /\ Len(frame.materials) > 100
    /\ frame.materials[1].tag = "woodFloor"
    /\ frame.materials[1].material.shininess = 2
    /\ frame.materials[Len(frame.materials)].tag = "BookCover"
    /\ frame.materials[Len(frame.materials)].material.shininess = 160

\* the meshes one RenderScene draws from
MeshesDrawn ==
    {DrawnMesh(RenderSceneCalls[k].mesh) :
        k \in {j \in 1..Len(RenderSceneCalls) : RenderSceneCalls[j].op = "Draw"}}

\* the elements of a sequence
Range(seq) == {seq[k] : k \in 1..Len(seq)}

WritesOf(slot, field) ==
    {k \in 1..Len(shader.lightWrites) :
        shader.lightWrites[k] = [slot |-> slot, field |-> field]}

\* C13: SetupSceneLights writes only point-light slots 0..3; it writes
\* position, ambient, diffuse, specular and the active flag of each of slots
\* 0, 1 and 2, each active flag with the value true; bUseLighting is set to
\* true before any light slot is written.
C13_LightSlotsWritten ==
    (~ub /\ Prepares >= 1) =>
        /\ \A k \in 1..Len(shader.lightWrites) :
              LET w == shader.lightWrites[k] IN
              \/ w = [slot |-> -1, field |-> "bUseLighting"]
              \/ /\ w.slot \in 0..3
                 /\ \E j \in 1..(k - 1) : shader.lightWrites[j].slot = -1
        /\ \A slot \in 0..2 :
              /\ \A field \in {"position", "ambient", "diffuse", "specular",
                                "bActive"} : WritesOf(slot, field) # {}
              /\ shader.pointLights[slot + 1].bActive = TRUE
        /\ shader.bUseLighting = TRUE

\* the state PrepareScene leaves: sixteen writes, the first bUseLighting,
\* the last pointLights[2].bActive, the second light behind the lamp
C13_Witness ==
    /\ ~ub
    /\ last.op = "PrepareScene"
    /\ Len(shader.lightWrites) = 16
    /\ shader.lightWrites[1] = [slot |-> -1, field |-> "bUseLighting"]
    /\ shader.lightWrites[2] = [slot |-> 0, field |-> "position"]
    /\ shader.lightWrites[16] = [slot |-> 2, field |-> "bActive"]
    /\ shader.pointLights[2].position = Vec3(-40000, 55000, -25000)

\* C14: in a run of one PrepareScene and any number of RenderScene calls,
\* bUseLighting and each light uniform have been written exactly once, by
\* PrepareScene: the log of light writes is empty until PrepareScene, holds
\* its sixteen distinct writes afterwards, and no RenderScene call adds to it
\* or changes the values written.
C14_LightsWrittenOnce ==
    /\ Prepares = 0 =>
          /\ shader.lightWrites = <<>>
          /\ shader.pointLights = <<>>
          /\ shader.bUseLighting = Unset
    /\ (Prepares = 1 /\ ~ub) =>
          /\ Len(shader.lightWrites) = 16
          /\ shader.pointLights = SetupSceneLights(Self).shader.pointLights
          /\ shader.bUseLighting = TRUE
          /\ \A j, k \in 1..Len(shader.lightWrites) :
                shader.lightWrites[j] = shader.lightWrites[k] => j = k

\* a frame rendered after the one PrepareScene, the lights as PrepareScene
\* wrote them
C14_Witness ==
    /\ ~ub
    /\ last.op = "RenderScene"
    /\ Prepares = 1
    /\ Len(frame.draws) > 100
    /\ Len(shader.lightWrites) = 16
    /\ Cardinality(WritesOf(-1, "bUseLighting")) = 1
    /\ shader.bUseLighting = TRUE

\* C15: m_loadedTextures, the registry entries and the material list change
\* only in a CreateGLTexture or DefineObjectMaterials call (made directly or
\* through PrepareScene); every other operation leaves them as they were.
C15_RegistriesWrittenOnlyByCreateAndDefine ==
    [][(\/ m_loadedTextures' # m_loadedTextures
        \/ m_textureIDs' # m_textureIDs
        \/ m_objectMaterials' # m_objectMaterials) =>
          last'.op \in {"CreateGLTexture", "DefineObjectMaterials",
                        "PrepareScene"}]_vars

\* C16: every object of a frame is drawn with its own placement data: the
\* calls between the previous object's last draw and the object's first draw
\* (the one that follows its SetTransformations) include SetShaderTexture or
\* SetShaderColor, and SetShaderMaterial.
C16_EveryObjectSetsItsOwnData ==
    last.op = "RenderScene" =>
        \A k \in 1..Len(frame.draws) :
           "SetTransformations" \in frame.draws[k].set =>
              /\ {"SetShaderTexture", "SetShaderColor"} \cap frame.draws[k].set # {}
              /\ "SetShaderMaterial" \in frame.draws[k].set

\* positions of the draw calls among the calls of one RenderScene
DrawPositions ==
    {i \in 1..Len(RenderSceneCalls) : RenderSceneCalls[i].op = "Draw"}

\* position of the k-th draw call
DrawPosition(k) ==
    CHOOSE i \in DrawPositions :
       Cardinality({j \in DrawPositions : j < i}) = k - 1

\* the SetShaderColor or SetShaderTexture call most recent before call i
RECURSIVE LastColorOrTexture(_)
LastColorOrTexture(i) ==
    IF RenderSceneCalls[i].op \in {"SetShaderColor", "SetShaderTexture"}
    THEN RenderSceneCalls[i].op
    ELSE LastColorOrTexture(i - 1)

\* number of draw calls in a sequence of calls
DrawsIn(calls) == Cardinality({i \in 1..Len(calls) : calls[i].op = "Draw"})

\* the draw of the monitor's centre box (the first of LoadMonitor) and of the
\* phone's screen box (the last of LoadPhone)
MonitorCentreDraw ==
    DrawsIn(SceneBase \o LoadLamp(2500, 0, -2000)) + 1

PhoneScreenDraw ==
    DrawsIn(SceneBase \o LoadLamp(2500, 0, -2000)
            \o LoadMonitor(-5000, 14000, -65000)
            \o LoadKeyboard(-5000, 0, -35000)
            \o LoadMouse(20000, -1000, -34000)
            \o LoadPhone(27000, 0, -39000))

C18_UnregisteredTagSetsMinusOne ==
    (~ub /\ last.op = "SetShaderTexture" /\ last.tag \notin RegisteredTags) =>
        /\ ToString(shader.bUseTexture) = "TRUE"
        /\ ToString(shader.objectTexture) = "-1"

\* "cup" failed to load and "plastic" is registered: SetShaderTexture("cup")
\* was called and the sampler holds -1 with texturing on
C18_Witness ==
    /\ ~ub
    /\ last.op = "SetShaderTexture"
    /\ last.tag = "cup"
    /\ gl.gen = 2
    /\ m_loadedTextures = 1
    /\ m_textureIDs[0].tag = "plastic"
    /\ shader.bUseTexture = TRUE
    /\ shader.objectTexture = -1

\* C19: SetShaderMaterial writes the material uniforms only when a material
\* with the passed tag exists, and then with that material's values; when the
\* list is empty or holds no such material the uniforms keep what they held
\* before the call.
C19_MaterialWrittenOnlyIfFound ==
    last.op = "SetShaderMaterial" =>
        IF MaterialMatches(last.tag) # {}
        THEN shader.material = FirstMaterial(last.tag)
        ELSE ToString(shader.material) = ToString(last.out)

\* the calls of one PrepareScene in the order of the claim
PrepareSceneOrder ==
    <<[call |-> "LoadSceneTextures", arg |-> ""]>>
    \o [k \in 1..13 |-> [call |-> "CreateGLTexture", arg |-> SceneTextures[k].tag]]
    \o <<[call |-> "BindGLTextures", arg |-> ""],
         [call |-> "DefineObjectMaterials", arg |-> ""],
         [call |-> "SetupSceneLights", arg |-> ""],
         [call |-> "LoadMesh", arg |-> "Plane"],
         [call |-> "LoadMesh", arg |-> "TaperedCylinder"],
         [call |-> "LoadMesh", arg |-> "Torus"],
         [call |-> "LoadMesh", arg |-> "Box"],
         [call |-> "LoadMesh", arg |-> "Cylinder"],
         [call |-> "LoadMesh", arg |-> "Sphere"]>>

\* C20: PrepareScene calls LoadSceneTextures, DefineObjectMaterials,
\* SetupSceneLights and then the six mesh loads, in that order; inside
\* LoadSceneTextures the 13 CreateGLTexture calls precede the one
\* BindGLTextures call, no CreateGLTexture call follows it, and so every
\* texture registered is bound to its unit.
C20_PrepareSceneOrder ==
    last.op = "PrepareScene" =>
        /\ \A i, j \in 1..Len(last.calls) :
              (last.calls[i].call = "BindGLTextures" /\ i < j) =>
                 last.calls[j].call # "CreateGLTexture"
        /\ ~ub =>
              /\ last.calls = PrepareSceneOrder
              /\ Cardinality({i \in 1..Len(last.calls) :
                     last.calls[i].call = "BindGLTextures"}) = 1
              /\ \A i \in 0..(m_loadedTextures - 1) :
                    gl.bound[i] = m_textureIDs[i].ID

\* PrepareScene has run with the "Pages" image, the last of the 13,
\* rejected: 23 calls were made, BindGLTextures the 15th, and the twelve
\* registered textures are bound
C20_Witness ==
    /\ ~ub
    /\ last.op = "PrepareScene"
    /\ m_loadedTextures = 12
    /\ gl.touched = 0..11
    /\ "Pages" \notin RegisteredTags
    /\ Len(last.calls) = 23
    /\ last.calls[14] = [call |-> "CreateGLTexture", arg |-> "Pages"]
    /\ last.calls[15] = [call |-> "BindGLTextures", arg |-> ""]
    /\ last.calls[23] = [call |-> "LoadMesh", arg |-> "Sphere"]

\* C21: after one PrepareScene on a fresh object with every image load
\* succeeding, slots 0..12 hold the 13 tags in load order, pairwise
\* distinct, and the material list holds the 8 materials in definition
\* order, pairwise distinct: every tag names exactly one entry.
C21_RegistriesHoldDistinctTags ==
    (~ub /\ Prepares = 1 /\ Failed = 0) =>
        /\ m_loadedTextures = 13
        /\ [i \in 1..13 |-> m_textureIDs[i - 1].tag] =
              <<"cup", "table-top", "table-side", "base", "WoodFloor",
                "lamp-rim", "lamp-shade", "wall", "plastic", "BookSpine",
                "BookBack", "BookFront", "Pages">>
        /\ \A i, j \in 0..12 :
              m_textureIDs[i].tag = m_textureIDs[j].tag => i = j
        /\ \A t \in RegisteredTags : Cardinality(TextureMatches(t)) = 1
        /\ [i \in 1..Len(m_objectMaterials) |-> m_objectMaterials[i].tag] =
              <<"plastic", "wood", "woodFloor", "porcelain", "metal", "cloth",
                "wall", "BookCover">>
        /\ \A i, j \in 1..Len(m_objectMaterials) :
              m_objectMaterials[i].tag = m_objectMaterials[j].tag => i = j
        /\ \A i \in 1..Len(m_objectMaterials) :
              Cardinality(MaterialMatches(m_objectMaterials[i].tag)) = 1

\* the state right after that PrepareScene: "cup" in slot 0 with GPU ID 1,
\* "Pages" in slot 12 with GPU ID 13, "BookCover" the eighth material
C21_Witness ==
    /\ ~ub
    /\ last.op = "PrepareScene"
    /\ Prepares = 1
    /\ m_loadedTextures = 13
    /\ m_textureIDs[0] = [ID |-> 1, tag |-> "cup"]
    /\ m_textureIDs[12] = [ID |-> 13, tag |-> "Pages"]
    /\ Len(m_objectMaterials) = 8
    /\ m_objectMaterials[8].tag = "BookCover"

\* the files of the last PrepareScene whose image CreateGLTexture accepted
LoadedFiles ==
    {k \in 1..Len(SceneTextures) : ~Undecodable(last.image[k])}

\* the i-th of them in load order
LoadedFile(i) ==
    CHOOSE k \in LoadedFiles : Cardinality({j \in LoadedFiles : j < k}) = i - 1

\* C22: whichever of the 13 files fail to load, LoadSceneTextures on a fresh
\* object goes on to load the others: afterwards m_loadedTextures is the
\* number n <= 13 of successful loads, slots 0..n-1 hold their tags in load
\* order, and no other slot holds an entry.
C22_FailedLoadsAreSkipped ==
    (~ub /\ last.op = "PrepareScene" /\ Prepares = 1) =>
        /\ m_loadedTextures = Cardinality(LoadedFiles)
        /\ m_loadedTextures <= 13
        /\ \A i \in 1..m_loadedTextures :
              m_textureIDs[i - 1].tag = SceneTextures[LoadedFile(i)].tag
        /\ \A i \in m_loadedTextures..(MaxTextures - 1) :
              m_textureIDs[i] = EmptyEntry
        /\ Cardinality({k \in 1..Len(last.calls) :
               last.calls[k].call = "CreateGLTexture"}) = 13

\* "table-top" (file 2) was missing and "wall" (file 8) had one colour
\* channel: eleven entries, "table-side" moved up to slot 1, "plastic" to
\* slot 6, "Pages" to slot 10
C22_Witness ==
    /\ ~ub
    /\ last.op = "PrepareScene"
    /\ Prepares = 1
    /\ LoadedFiles = (1..13) \ {2, 8}
    /\ last.image[2] = NullImage
    /\ last.image[8].ok
    /\ m_loadedTextures = 11
    /\ m_textureIDs[0].tag = "cup"
    /\ m_textureIDs[1].tag = "table-side"
    /\ m_textureIDs[6].tag = "plastic"
    /\ m_textureIDs[10].tag = "Pages"
    /\ m_textureIDs[11] = EmptyEntry

\* what each draw of a frame was issued with
DrawStates(f) ==
    [k \in 1..Len(f.draws) |->
        [mesh          |-> f.draws[k].mesh,
         args          |-> f.draws[k].args,
         model         |-> f.draws[k].shader.model,
         bUseTexture   |-> f.draws[k].shader.bUseTexture,
         objectTexture |-> f.draws[k].shader.objectTexture,
         objectColor   |-> f.draws[k].shader.objectColor,
         UVscale       |-> f.draws[k].shader.UVscale,
         material      |-> f.draws[k].shader.material]]

\* the object with other values in the per-draw uniforms
Scrambled ==
    [Self EXCEPT
       !.shader.bUseTexture = FALSE,
       !.shader.objectTexture = 15,
       !.shader.objectColor = <<1, 2, 3, 4>>,
       !.shader.UVscale = <<9, 9>>,
       !.shader.model = [scaleXYZ |-> <<1, 1, 1>>, rotation |-> <<1, 1, 1>>,
                         positionXYZ |-> <<1, 1, 1>>],
       !.shader.material = [diffuseColor |-> Vec3(1, 1, 1),
                            specularColor |-> Vec3(1, 1, 1), shininess |-> 1]]

\* C23: a RenderScene call made after a frame issues the same draws with the
\* same model transform, use-texture flag, texture slot, colour, UV scale
\* and material at each draw as that frame did; and, once PrepareScene has
\* run, so does a call made with any other values in those uniforms.
C23_FramesAreIdentical ==
    (~ub /\ last.op = "RenderScene") =>
        \A material \in IndeterminateMaterials :
           /\ DrawStates(RenderScene(Self, material).frame) = DrawStates(frame)
           /\ Prepares >= 1 =>
                 DrawStates(RenderScene(Scrambled, material).frame) =
                    DrawStates(frame)

\* a frame rendered after PrepareScene has left the last book's values in
\* the shader, which differ from what the floor, drawn first, was issued
\* with
C23_Witness ==
    /\ ~ub
    /\ last.op = "RenderScene"
    /\ Prepares = 1
    /\ Len(frame.draws) = 147
    /\ frame.draws[1].shader.objectTexture = 4
    /\ frame.draws[1].shader.UVscale # shader.UVscale
    /\ frame.draws[1].shader.model # shader.model
    /\ frame.draws[1].shader.material # shader.material
    /\ shader.objectTexture = 12

\* the meshes a sequence of calls draws, in order
MeshesOf(calls) ==
    LET at == {i \in 1..Len(calls) : calls[i].op = "Draw"}
        nth(k) == CHOOSE i \in at : Cardinality({j \in at : j < i}) = k - 1
    IN  [k \in 1..Cardinality(at) |-> calls[nth(k)].mesh]

\* the objects after the desk, in the order of the claim
ObjectsAfterDesk ==
    <<LoadLamp(2500, 0, -2000),
      LoadMonitor(-5000, 14000, -65000),
      LoadKeyboard(-5000, 0, -35000),
      LoadMouse(20000, -1000, -34000),
      LoadPhone(27000, 0, -39000),
      BookLoop(0, 20000) \o LoadBook(16800, 2500, -63500, 0, 0, -75000)>>

\* C24: RenderScene returns after exactly 147 draw calls: 21 for floor,
\* wall, cup body, cup handle and desk in that order, then 7 for the lamp,
\* 13 for the monitor, 59 for the keyboard, 2 for the mouse, 9 for the phone
\* and 36 for the books.
C24_DrawCountAndOrder ==
    last.op = "RenderScene" =>
        /\ Len(frame.draws) = 147
        /\ [k \in 1..5 |-> frame.draws[k].mesh] =
              <<"Plane", "Plane", "TaperedCylinder", "HalfTorus", "BoxSide">>
        /\ [k \in 1..5 |-> frame.materials[k].tag] =
              <<"woodFloor", "wall", "porcelain", "porcelain", "wood">>
        /\ \A k \in 5..21 : frame.draws[k].mesh \in {"Box", "BoxSide"}
        /\ [o \in 1..6 |-> DrawsIn(ObjectsAfterDesk[o])] = <<7, 13, 59, 2, 9, 36>>
        /\ [k \in 1..126 |-> frame.draws[21 + k].mesh] =
              MeshesOf(ObjectsAfterDesk[1] \o ObjectsAfterDesk[2]
                       \o ObjectsAfterDesk[3] \o ObjectsAfterDesk[4]
                       \o ObjectsAfterDesk[5] \o ObjectsAfterDesk[6])

\* a finished frame: the floor drawn first, the lamp's first part 22nd, the
\* monitor's 29th, the keyboard's 42nd, the mouse's sphere 101st, the
\* phone's 103rd, the first book's 112th and the tilted book's last 147th
C24_Witness ==
    /\ ~ub
    /\ last.op = "RenderScene"
    /\ Prepares = 1
    /\ frame.draws[1].shader.model.positionXYZ = <<0, 0, 70000>>
    /\ frame.draws[22].mesh = MeshesOf(LoadLamp(2500, 0, -2000))[1]
    /\ frame.draws[29].shader.bUseTexture = FALSE
    /\ frame.draws[42].mesh = "Box"
    /\ frame.draws[101].mesh = "Sphere"
    /\ frame.draws[103].mesh = MeshesOf(LoadPhone(27000, 0, -39000))[1]
    /\ frame.draws[112].mesh = "Box"
    /\ frame.draws[147].shader.model.rotation[3] = -75000
    /\ Len(frame.draws) = 147

\* the frame's first keyboard draw: the keyboard follows the 21 draws of the
\* scene base, the lamp and the monitor
KeyboardDraw ==
    DrawsIn(SceneBase \o LoadLamp(2500, 0, -2000)
            \o LoadMonitor(-5000, 14000, -65000)) + 1

\* the draw of the keycap in row j, column i
KeyCapDraw(j, i) == frame.draws[KeyboardDraw + 1 + 19 * j + i]

\* C25: LoadKeyboard draws 59 boxes: the base, 57 keycaps, the stand; the
\* keycaps are 3 rows of 19, the one in row j and column i placed at
\* (i*0.1, -0.025*j, 0.15*j) from the first, every row starting again at
\* column offset 0 (positions in ten-thousandths).
C25_KeyboardGrid ==
    last.op = "RenderScene" =>
        /\ DrawsIn(LoadKeyboard(-5000, 0, -35000)) = 59
        /\ \A k \in 0..58 : frame.draws[KeyboardDraw + k].mesh = "Box"
        /\ frame.draws[KeyboardDraw].shader.model.scaleXYZ = <<20000, 5000, 500>>
        /\ frame.draws[KeyboardDraw + 58].shader.model.scaleXYZ
              \notin {<<20000, 5000, 500>>, <<750, 750, 250>>}
        /\ \A j \in 0..2, i \in 0..18 :
              /\ KeyCapDraw(j, i).shader.model.scaleXYZ = <<750, 750, 250>>
              /\ KeyCapDraw(j, i).shader.model.positionXYZ =
                    <<KeyCapDraw(0, 0).shader.model.positionXYZ[1] + i * 1000,
                      KeyCapDraw(0, 0).shader.model.positionXYZ[2] - 250 * j,
                      KeyCapDraw(0, 0).shader.model.positionXYZ[3] + 1500 * j>>

\* a frame whose first keycap is the 43rd draw and whose last keycap, row 2
\* column 18, is the 99th, 1.8 to the right, 0.05 below and 0.3 in front of
\* the first
C25_Witness ==
    /\ ~ub
    /\ last.op = "RenderScene"
    /\ Prepares = 1
    /\ KeyboardDraw = 42
    /\ KeyCapDraw(0, 0).shader.model.positionXYZ = <<-14000, 41200, 13500>>
    /\ KeyCapDraw(1, 0).shader.model.positionXYZ = <<-14000, 40950, 15000>>
    /\ frame.draws[99].shader.model.positionXYZ = <<4000, 40700, 16500>>
    /\ frame.draws[99] = KeyCapDraw(2, 18)

\* ------------------------------------------------------------------- C26
\* the i-th call of a routine moved by d: a SetTransformations call with its
\* position shifted, any other call as it is
Moved(call, d) ==
    IF call.op = "SetTransformations"
    THEN [call EXCEPT !.positionXYZ = <<@[1] + d[1], @[2] + d[2], @[3] + d[3]>>]
    ELSE call

\* the SetTransformations call most recent before call i
LastTransform(calls, i) ==
    CHOOSE j \in 1..i :
       /\ calls[j].op = "SetTransformations"
       /\ \A m \in (j + 1)..i : calls[m].op # "SetTransformations"

\* C26: every placement routine is translation-equivariant: called at a
\* position shifted by (dx, dy, dz) it makes the same sequence of calls, with
\* the same meshes, scales, rotations, textures and materials, and every
\* part's position shifted by exactly (dx, dy, dz); the parts drawn by the
\* call just made stand where the routine's calls put them.
C26_PlacementIsTranslationEquivariant ==
    last.op \in PlacementRoutines =>
        LET p == last.out.position
            r == last.out.rotation
            calls == PlacementCalls(last.op, p, r)
        IN  /\ Len(frame.draws) = DrawsIn(calls)
            /\ \A i \in 1..Len(calls) :
                  calls[i].op = "Draw" =>
                     frame.draws[DrawsIn(SubSeq(calls, 1, i))].shader.model.positionXYZ
                        = calls[LastTransform(calls, i)].positionXYZ
            /\ \A d \in Shifts :
                  LET moved == PlacementCalls(last.op,
                                  <<p[1] + d[1], p[2] + d[2], p[3] + d[3]>>, r)
                  IN  /\ Len(moved) = Len(calls)
                      /\ \A i \in 1..Len(calls) : moved[i] = Moved(calls[i], d)

\* LoadKeyboard called at the position RenderScene passes LoadMonitor: 59
\* parts, the last keycap 1.8 right, 0.05 below and 0.3 in front of the first
C26_Witness ==
    /\ ~ub
    /\ last.op = "LoadKeyboard"
    /\ last.out.position = <<-5000, 14000, -65000>>
    /\ Len(frame.draws) = 59
    /\ frame.draws[2].shader.model.positionXYZ = <<-14000, 55200, -16500>>
    /\ frame.draws[58].shader.model.positionXYZ = <<4000, 54700, -13500>>
    /\ <<2500, -2500, 0>> \in Shifts

====
